---------------------------- MODULE Spec2Model ----------------------------
(***************************************************************************)
(* The conversation-list reconciler of CometChatConversations.tsx as a     *)
(* state machine.  One mounted instance: the conversation store (the list  *)
(* held by CometChatList), the component's own selection and pending-delete *)
(* state, the logged-in user reference, and the asynchronous operations    *)
(* (derivations, delete commands) that are in flight.                      *)
(***************************************************************************)
EXTENDS Integers, Sequences, FiniteSets, TLC

VARIABLES
    store,                  \* CometChatList's list: a sequence of conversation records
    selectedConversation,   \* the component's selection list (conversation ids)
    selecting,              \* React state `selecting`
    selectionMode,          \* prop selectionMode
    loggedInUser,           \* loggedInUser.current: "undefined" or the uid
    loginPending,           \* CometChat.getLoggedinUser() has not settled yet
    settings,               \* CometChatUIKit.getConversationUpdateSettings()
    includeBlocked,         \* conversationsRequestBuilder && build().isIncludeBlockedUsers()
    pending,                \* asynchronous operations in flight
    clock,                  \* number of external events delivered so far
    longPressId,            \* longPressId.current
    tooltipVisible,         \* React state tooltipVisible
    confirmDelete,          \* React state confirmDelete
    notified,               \* conversation ids of the emitted ccConversationDeleted events
    mounted,                \* the instances of the component that are mounted
    listeners,              \* the listeners registered with the SDK and the UI event handler
    timer,                  \* onMemberAddedToGroupDebounceTimer.current
    inPlace,                \* a handler has changed a record held by the store in place (history)
    disableSoundForMessages,\* prop disableSoundForMessages
    effects,                \* the commands the last message-received listener issued
    groupTypeVisibility,    \* prop groupTypeVisibility
    usersStatusVisibility,  \* prop usersStatusVisibility
    textFormatters,         \* prop textFormatters (the formatters in their given order)
    rendered,               \* what the item view rendered last, and for which input
    step                    \* the handler step executed last (history)

vars == <<store, selectedConversation, selecting, selectionMode, loggedInUser,
          loginPending, settings, includeBlocked, pending, clock, longPressId,
          tooltipVisible, confirmDelete, notified, mounted, listeners, timer,
          inPlace, disableSoundForMessages, effects, groupTypeVisibility,
          usersStatusVisibility, textFormatters, rendered, step>>

(***************************************************************************)
(* Bounds of the model.                                                    *)
(***************************************************************************)
\* External events delivered in one behaviour.
MaxEvents == 2
\* Messages sent in one behaviour of the policy specification.
MaxPolicyEvents == 1

(***************************************************************************)
(* Identities.                                                             *)
(***************************************************************************)
Me == "me"
\* Opposing users: "a1" sorts before the logged-in uid, "u1" after it.
Users == {"a1", "u1"}
Groups == {"g1"}
Undefined == "undefined"
NoId == [t |-> "none", a |-> "", b |-> ""]

\* The template string `${a}_user_${b}` of the handlers.
UserKey(a, b) == [t |-> "user", a |-> a, b |-> b]
\* The template string `group_${guid}`.
GroupKey(g) == [t |-> "group", a |-> g, b |-> ""]

\* The conversation id the backend gives a direct conversation: the two uids
\* in sorted order.
ConversationIdOfUser(u) == IF u = "a1" THEN UserKey(u, Me) ELSE UserKey(Me, u)
ConvIds == {ConversationIdOfUser(u) : u \in Users} \cup {GroupKey(g) : g \in Groups}
Party(id) == IF id.t = "group" THEN id.a ELSE IF id.a = Me THEN id.b ELSE id.a


(***************************************************************************)
(* Messages and conversation records.                                      *)
(***************************************************************************)
\* A message object.  cat is getCategory(); parent is getParentMessageId();
\* willUpdate and incFlag are a custom message's willUpdateConversation() and
\* metadata.incrementUnreadCount; typing is the annotation the typing handler
\* stores on the last-message object ("none" when the property is absent);
\* readAt and deliveredAt are the receipt timestamps and deletedAt the time
\* of the soft delete (0 when the property is absent).
Message(mid, cat, sender, conv, parent, willUpdate, incFlag) ==
    [mid |-> mid, cat |-> cat, sender |-> sender, conv |-> conv, parent |-> parent,
     willUpdate |-> willUpdate, incFlag |-> incFlag, typing |-> "none",
     readAt |-> 0, deliveredAt |-> 0, deletedAt |-> 0]

\* getLastMessage() of a conversation that has none.
NoMessage == Message(0, "none", "", NoId, FALSE, FALSE, FALSE)

\* The opposing-party snapshot (getConversationWith()): blocked is
\* getBlockedByMe() || getHasBlockedMe(); snap is 0 for the snapshot that came
\* with the conversation and 1 for one delivered by an event.
Party0 == [blocked |-> FALSE, snap |-> 0]

Conversation(id, with, last, unread) ==
    [id |-> id, with |-> with, last |-> last, unread |-> unread]

\* CometChat.CometChatHelper.getConversationFromMessage(message), resolved.
getConversationFromMessage(m) == Conversation(m.conv, Party0, m, 0)

\* CometChat.getConversation(guid, "group"), resolved, for a group just created.
getConversation(g) == Conversation(GroupKey(g), Party0, NoMessage, 0)

\* The id of the message the next event carries: fresh and increasing.
NextMid == Cardinality(ConvIds) + clock + 1

(***************************************************************************)
(* The conversation store: the list operations of CometChatList.           *)
(***************************************************************************)
RECURSIVE IndexFrom(_, _, _)
IndexFrom(s, id, i) ==
    IF i > Len(s) THEN 0
    ELSE IF s[i].id = id THEN i
    ELSE IndexFrom(s, id, i + 1)

\* findIndex by conversationId: the first match, 0 when there is none.
IndexOf(s, id) == IndexFrom(s, id, 1)

Has(s, id) == IndexOf(s, id) # 0

\* getListItem(id); only used where Has(s, id).
getListItem(s, id) == s[IndexOf(s, id)]

\* getAllListItems().
getAllListItems(s) == s

RemoveAt(s, i) == SubSeq(s, 1, i - 1) \o SubSeq(s, i + 1, Len(s))

InsertAt(s, rec, i) == SubSeq(s, 1, i) \o <<rec>> \o SubSeq(s, i + 1, Len(s))

\* updateList as an upsert: a record with no match is put in front.
updateList_InsertsWhenAbsent(s, rec) ==
    IF Has(s, rec.id) THEN [s EXCEPT ![IndexOf(s, rec.id)] = rec] ELSE <<rec>> \o s

\* updateList(record): replaces the record with the matching id in place.
updateList(s, rec) ==
    IF Has(s, rec.id) THEN [s EXCEPT ![IndexOf(s, rec.id)] = rec] ELSE s

\* updateAndMoveToFirst(record): replaces the record and relocates it to index 0.
updateAndMoveToFirst(s, rec) ==
    IF Has(s, rec.id) THEN <<rec>> \o RemoveAt(s, IndexOf(s, rec.id)) ELSE s

\* removeItemFromList(id): removes the record if present.
removeItemFromList(s, id) ==
    IF Has(s, id) THEN RemoveAt(s, IndexOf(s, id)) ELSE s

\* addItemToList(record, 0).  With a record of that id already in the list the
\* result is not defined by the store's contract: the record is inserted
\* beside the old one, or takes the old one's place.
addItemToList(s, rec) ==
    IF Has(s, rec.id) THEN {InsertAt(s, rec, 0), updateList(s, rec)}
    ELSE {InsertAt(s, rec, 0)}

Ids(s) == {s[i].id : i \in 1..Len(s)}

(***************************************************************************)
(* The Update Policy.                                                      *)
(***************************************************************************)
\* The policy with the group-action rule placed before the reply rule.
shouldUpdate_GroupActionsFirst(m) ==
    IF m.cat = "action" /\ m.conv.t = "group" THEN settings.groupActions
    ELSE IF m.parent /\ ~settings.replies THEN FALSE
    ELSE IF m.cat = "custom" /\ ~m.willUpdate /\ ~m.incFlag /\ ~settings.custom THEN FALSE
    ELSE IF m.cat = "call" /\ ~settings.calls THEN FALSE
    ELSE TRUE

shouldUpdateLastMessageAndUnreadCount(m) ==
    IF m.parent /\ ~settings.replies THEN FALSE
    ELSE IF m.cat = "custom" /\ ~m.willUpdate /\ ~m.incFlag /\ ~settings.custom THEN FALSE
    ELSE IF m.cat = "action" /\ m.conv.t = "group" THEN settings.groupActions
    ELSE IF m.cat = "call" /\ ~settings.calls THEN FALSE
    ELSE TRUE

(***************************************************************************)
(* Instances and their event subscriptions.                                *)
(***************************************************************************)
\* "A" is the instance whose store this module follows; "B" is a second
\* instance of the component mounted in the same application.
Instances == {"A", "B"}

\* The registrations of the mount effect: with the SDK (user, call, group)
\* and with the UI event handler (conversation, message, group, user, call).
Channels ==
    {"sdkUser", "sdkCall", "sdkGroup",
     "uiConversation", "uiMessage", "uiGroup", "uiUser", "uiCall"}

\* The registrations the cleanup of the mount effect removes.
CleanedChannels ==
    {"sdkUser", "sdkCall", "sdkGroup",
     "uiMessage", "uiConversation", "uiGroup", "uiUser"}

\* The listener id an instance passes for a channel: the module-level
\* constants, computed once when the module is loaded and so the same for
\* every instance.
ListenerId(inst, ch) ==
    IF ch \in {"sdkUser", "uiUser"} THEN "chatlist_user_"
    ELSE IF ch \in {"sdkCall", "uiCall"} THEN "call_"
    ELSE IF ch \in {"sdkGroup", "uiGroup"} THEN "chatlist_group_"
    ELSE IF ch = "uiMessage" THEN "chatlist_message_"
    ELSE "chatlist_"

Registration(inst, ch) == [ch |-> ch, id |-> ListenerId(inst, ch), inst |-> inst]

\* add...Listener(id, listener): a registry keyed by the listener id keeps
\* the listener in place of one registered under that id before; one that is
\* not keeps it beside that one.
addListener(L, inst, ch, keyed) ==
    LET e == Registration(inst, ch)
    IN  IF keyed THEN {x \in L : ~(x.ch = ch /\ x.id = e.id)} \cup {e}
        ELSE L \cup {e}

RECURSIVE addListeners(_, _, _, _)
addListeners(L, inst, chs, keyed) ==
    IF chs = {} THEN L
    ELSE LET ch == CHOOSE c \in chs : TRUE
         IN  addListeners(addListener(L, inst, ch, keyed), inst, chs \ {ch}, keyed)

\* remove...Listener(id): nothing registered under the id stays.
removeListener(L, inst, ch) ==
    {x \in L : ~(x.ch = ch /\ x.id = ListenerId(inst, ch))}

RECURSIVE removeListeners(_, _, _)
removeListeners(L, inst, chs) ==
    IF chs = {} THEN L
    ELSE LET ch == CHOOSE c \in chs : TRUE
         IN  removeListeners(removeListener(L, inst, ch), inst, chs \ {ch})

\* The instances whose handler an event of the channel invokes.
Receivers(ch) == {x.inst : x \in {y \in listeners : y.ch = ch}}

\* No debounce timer is pending.
NoTimer == [t |-> "none", m |-> NoMessage]

(***************************************************************************)
(* The render projection: status indicator and subtitle text.              *)
(***************************************************************************)
\* Nothing rendered yet.
NoView == [view |-> "none", indicator |-> "undefined", text |-> <<>>]

(***************************************************************************)
(* The state after construction.                                           *)
(***************************************************************************)
\* The page of conversations the list shows at mount: a direct conversation
\* with nothing unread and a group conversation with three unread messages.
\* No conversation with "a1" exists yet.
FetchedPage ==
    << Conversation(ConversationIdOfUser("u1"), Party0,
                    Message(1, "message", "u1", ConversationIdOfUser("u1"), FALSE, FALSE, FALSE), 0),
       Conversation(GroupKey("g1"), Party0,
                    Message(2, "message", Me, GroupKey("g1"), FALSE, FALSE, FALSE), 3) >>

SelectionModes == {"none", "single", "multiple"}

SettingsChoices ==
    {[replies |-> FALSE, custom |-> FALSE, groupActions |-> ga, calls |-> ca] :
        ga \in BOOLEAN, ca \in BOOLEAN}

Init ==
    /\ store = FetchedPage
    /\ selectedConversation = <<>>
    /\ selectionMode \in SelectionModes
    /\ selecting = (selectionMode # "none")
    /\ loggedInUser = Undefined
    /\ loginPending = TRUE
    /\ settings \in SettingsChoices
    /\ includeBlocked \in BOOLEAN
    /\ pending = {}
    /\ clock = 0
    /\ longPressId = NoId
    /\ tooltipVisible = FALSE
    /\ confirmDelete = NoId
    /\ notified = {}
    /\ mounted = {"A"}
    /\ listeners = {Registration("A", ch) : ch \in Channels}
    /\ timer = NoTimer
    /\ inPlace = FALSE
    /\ disableSoundForMessages = FALSE
    /\ effects = {}
    /\ groupTypeVisibility = TRUE
    /\ usersStatusVisibility = TRUE
    /\ textFormatters = <<>>
    /\ rendered = NoView
    /\ step = "mount"

\* An external event is delivered: the model delivers at most MaxEvents.
Deliver == clock < MaxEvents /\ clock' = clock + 1

\* An operation in flight: its kind, the message it is about and the selection
\* list its continuation captured; via tells the two listeners that start
\* updateLastMessage apart.
Op(k, m) == [k |-> k, m |-> m, sel |-> <<>>, via |-> "-"]

props == <<selectionMode, settings, includeBlocked, disableSoundForMessages>>
ui == <<longPressId, tooltipVisible, confirmDelete>>
sel == <<selectedConversation, selecting>>
login == <<loggedInUser, loginPending>>
life == <<mounted, listeners, timer>>
render == <<groupTypeVisibility, usersStatusVisibility, textFormatters, rendered>>

\* The content of the store once a handler has set fields on the object
\* getListItem returned, making it rec, before any store operation runs.
HeldAfter(rec) == [store EXCEPT ![IndexOf(store, rec.id)] = rec]

\* The handler writes rec's fields to the object the store holds.
MutatesHeld(rec) == inPlace' = (inPlace \/ HeldAfter(rec) # store)

(***************************************************************************)
(* The lookup of the logged-in user started at mount.                      *)
(***************************************************************************)
getLoggedinUserResolved ==
    /\ loginPending
    /\ loginPending' = FALSE
    /\ loggedInUser' = Me
    /\ step' = "getLoggedinUser:resolved"
    /\ UNCHANGED <<store, sel, props, render, effects, life, inPlace, pending, clock, ui, notified>>

getLoggedinUserRejected ==
    /\ loginPending
    /\ loginPending' = FALSE
    /\ loggedInUser' = Undefined
    /\ step' = "getLoggedinUser:rejected"
    /\ UNCHANGED <<store, sel, props, render, effects, life, inPlace, pending, clock, ui, notified>>

(***************************************************************************)
(* Message events.                                                         *)
(***************************************************************************)
\* Who can have sent a message of a conversation.
Senders(id) == IF id.t = "group" THEN {Me, "u1"} ELSE {Me, Party(id)}

\* updateLastMessage, lines 513-516: the record written for an existing
\* conversation.
updateLastMessageRecord(old, m) ==
    [old EXCEPT !.last = m,
                !.unread = IF m.sender # loggedInUser THEN @ + 1 ELSE @]

\* updateLastMessage, lines 503-507: the record inserted for a new conversation.
newConversationRecord(m) ==
    LET newConversation == getConversationFromMessage(m)
    IN  IF newConversation.last.sender # loggedInUser
        THEN [newConversation EXCEPT !.unread = 1]
        ELSE newConversation

\* updateLastMessage(newMessage): starts the derivation.
updateLastMessage(m, via) ==
    pending' = pending \cup {[Op("updateLastMessage", m) EXCEPT !.via = via]}

\* playNotificationSound(): the sounds it plays.
playNotificationSound ==
    IF disableSoundForMessages THEN {} ELSE {"incomingMessageFromOther"}

\* shouldMarkAsDelivered(message).
shouldMarkAsDelivered(m) == m.deliveredAt = 0

\* markMessageAsDelivered(message): the commands it issues.
markMessageAsDelivered(m) ==
    IF m.deletedAt # 0 THEN {}
    ELSE IF shouldMarkAsDelivered(m)
    THEN {"markAsDelivered"} \cup playNotificationSound
    ELSE {}

\* The commands a message-received listener issues for an accepted message:
\* those of messageEventHandler, then the listener's own sound.
ReceivedEffects(m) ==
    markMessageAsDelivered(m) \cup
    (IF disableSoundForMessages THEN {} ELSE {"incomingMessage"})

\* onTextMessageReceived and its six siblings, for any message object.
onMessageReceivedOf(m) ==
    /\ Deliver
    /\ IF shouldUpdateLastMessageAndUnreadCount(m)
       THEN /\ effects' = ReceivedEffects(m)
            /\ updateLastMessage(m, "received")
            /\ step' = "onMessageReceived"
       ELSE /\ effects' = {}
            /\ UNCHANGED pending
            /\ step' = "onMessageReceived:rejected"
    /\ UNCHANGED <<store, sel, props, render, life, inPlace, login, ui, notified>>

\* onTextMessageReceived.
onMessageReceived(id, sender, parent) ==
    onMessageReceivedOf(Message(NextMid, "message", sender, id, parent, FALSE, FALSE))

\* ccMessageSent({message, status}) for any message object.
ccMessageSentOf(m, status) ==
    /\ Deliver
    /\ IF status = "success" /\ shouldUpdateLastMessageAndUnreadCount(m)
       THEN /\ updateLastMessage(m, "sent")
            /\ step' = "ccMessageSent"
       ELSE /\ UNCHANGED pending
            /\ step' = "ccMessageSent:ignored"
    /\ UNCHANGED <<store, sel, props, render, effects, life, inPlace, login, ui, notified>>

\* ccMessageSent for a text message of the logged-in user.
ccMessageSent(id, status, parent) ==
    ccMessageSentOf(Message(NextMid, "message", Me, id, parent, FALSE, FALSE), status)

\* The first derivation of updateLastMessage resolves.
updateLastMessageThen(op) ==
    /\ op \in pending /\ op.k = "updateLastMessage"
    /\ IF "A" \notin mounted
       THEN \* conversationListRef.current!.getListItem on null, caught:
            \* console.log
            /\ pending' = pending \ {op}
            /\ step' = "updateLastMessage:catch"
            /\ UNCHANGED <<store, inPlace>>
       ELSE IF ~Has(store, op.m.conv)
       THEN /\ pending' = (pending \ {op}) \cup {[op EXCEPT !.k = "updateLastMessage:add"]}
            /\ step' = "updateLastMessage:absent"
            /\ UNCHANGED <<store, inPlace>>
       ELSE /\ pending' = pending \ {op}
            /\ MutatesHeld(updateLastMessageRecord(getListItem(store, op.m.conv), op.m))
            /\ store' = updateAndMoveToFirst(store,
                            updateLastMessageRecord(getListItem(store, op.m.conv), op.m))
            /\ step' = "updateLastMessage:updated"
    /\ UNCHANGED <<sel, props, render, effects, life, login, clock, ui, notified>>

\* The first derivation rejects: console.log.
updateLastMessageCatch(op) ==
    /\ op \in pending /\ op.k = "updateLastMessage"
    /\ pending' = pending \ {op}
    /\ step' = "updateLastMessage:catch"
    /\ UNCHANGED <<store, sel, props, render, effects, life, inPlace, login, clock, ui, notified>>

\* The second derivation resolves: the new conversation is added.
updateLastMessageAdd(op) ==
    /\ op \in pending /\ op.k = "updateLastMessage:add"
    /\ pending' = pending \ {op}
    /\ IF "A" \notin mounted
       THEN \* conversationListRef.current!.addItemToList on null, caught:
            \* onError
            /\ step' = "updateLastMessage:onError"
            /\ UNCHANGED store
       ELSE /\ store' \in addItemToList(store, newConversationRecord(op.m))
            /\ step' = "updateLastMessage:added"
    /\ UNCHANGED <<sel, props, render, effects, life, inPlace, login, clock, ui, notified>>

\* The second derivation rejects: onError.
updateLastMessageAddCatch(op) ==
    /\ op \in pending /\ op.k = "updateLastMessage:add"
    /\ pending' = pending \ {op}
    /\ step' = "updateLastMessage:onError"
    /\ UNCHANGED <<store, sel, props, render, effects, life, inPlace, login, clock, ui, notified>>

(***************************************************************************)
(* Edited, deleted and read messages.                                      *)
(***************************************************************************)
\* The versions of message m an edit or a delete delivers: the same id; a
\* custom message's metadata flag is as the edit leaves it.
EditedVersions(m) ==
    IF m.cat = "custom"
    THEN {[m EXCEPT !.incFlag = f, !.typing = "none"] : f \in BOOLEAN}
    ELSE {[m EXCEPT !.typing = "none"]}

\* A message of the conversation that is older than its last message.
OlderMessage(id) == Message(0, "message", Me, id, FALSE, FALSE, FALSE)

\* onMessageEdited, onMessageDeleted, ccMessageEdited, ccMessageDeleted and
\* ccMessageRead: checkAndUpdateLastMessage(newMessage) starts its derivation.
checkAndUpdateLastMessage(m) ==
    /\ Deliver
    /\ pending' = pending \cup {Op("checkAndUpdateLastMessage", m)}
    /\ step' = "checkAndUpdateLastMessage"
    /\ UNCHANGED <<store, sel, props, render, effects, life, inPlace, login, ui, notified>>

\* The derivation of checkAndUpdateLastMessage resolves.
checkAndUpdateLastMessageThen(op) ==
    /\ op \in pending /\ op.k = "checkAndUpdateLastMessage"
    /\ pending' = pending \ {op}
    /\ IF ~Has(store, op.m.conv)
       THEN /\ step' = "checkAndUpdateLastMessage:absent"
            /\ UNCHANGED store
       ELSE IF getListItem(store, op.m.conv).last = NoMessage
       THEN \* conver.getLastMessage().getId() on undefined
            /\ step' = "checkAndUpdateLastMessage:TypeError"
            /\ UNCHANGED store
       ELSE IF getListItem(store, op.m.conv).last.mid = op.m.mid
       THEN /\ store' = updateList(store, getConversationFromMessage(op.m))
            /\ step' = "checkAndUpdateLastMessage:updated"
       ELSE /\ step' = "checkAndUpdateLastMessage:other"
            /\ UNCHANGED store
    /\ UNCHANGED <<sel, props, render, effects, life, inPlace, login, clock, ui, notified>>

\* The derivation of checkAndUpdateLastMessage rejects: nothing handles it.
checkAndUpdateLastMessageRejected(op) ==
    /\ op \in pending /\ op.k = "checkAndUpdateLastMessage"
    /\ pending' = pending \ {op}
    /\ step' = "checkAndUpdateLastMessage:unhandledRejection"
    /\ UNCHANGED <<store, sel, props, render, effects, life, inPlace, login, clock, ui, notified>>

(***************************************************************************)
(* Group actions.                                                          *)
(***************************************************************************)
ActionMessage(g) == Message(NextMid, "action", "u1", GroupKey(g), FALSE, FALSE, FALSE)

\* The group snapshot an event delivers.
EventParty(blocked) == [blocked |-> blocked, snap |-> 1]

\* groupHandler, lines 652-656: the record written for an existing conversation.
groupHandlerRecord(conversation, m, hasGroup) ==
    [conversation EXCEPT !.last = m,
                         !.with = IF hasGroup THEN EventParty(FALSE) ELSE @]

\* groupHandler's update branch relocating the record to the front.
groupHandlerUpdate_MoveToFirst(m, hasGroup) ==
    IF ~settings.groupActions
    THEN /\ step' = "groupHandler:off"
         /\ UNCHANGED <<store, inPlace>>
    ELSE /\ MutatesHeld(groupHandlerRecord(getListItem(store, m.conv), m, hasGroup))
         /\ store' = updateAndMoveToFirst(store,
                        groupHandlerRecord(getListItem(store, m.conv), m, hasGroup))
         /\ step' = "groupHandler:updated"

\* groupHandler, lines 649-658: the branch that updates in place.
groupHandlerUpdate(m, hasGroup) ==
    IF ~settings.groupActions
    THEN /\ step' = "groupHandler:off"
         /\ UNCHANGED <<store, inPlace>>
    ELSE /\ MutatesHeld(groupHandlerRecord(getListItem(store, m.conv), m, hasGroup))
         /\ store' = updateList(store,
                        groupHandlerRecord(getListItem(store, m.conv), m, hasGroup))
         /\ step' = "groupHandler:updated"

\* groupHandler(message, {action, actionOn, group}) run with the operations
\* inFlight besides it.  action is "none" and hasGroup FALSE when the handler
\* is called with the message alone.
groupHandlerFrom(inFlight, m, action, actionOn, hasGroup) ==
    IF Has(store, m.conv)
    THEN /\ pending' = inFlight
         /\ IF    \/ action = "scopeChange"
                  \/ action \in {"kicked", "banned", "left"}
            THEN IF loggedInUser = Undefined
                 THEN \* loggedInUser.current!.getUid() on undefined
                      /\ step' = "groupHandler:TypeError"
                      /\ UNCHANGED <<store, inPlace>>
                 ELSE IF action # "scopeChange" /\ actionOn = loggedInUser
                 THEN /\ store' = removeItemFromList(store, m.conv)
                      /\ step' = "groupHandler:removed"
                      /\ UNCHANGED inPlace
                 ELSE groupHandlerUpdate(m, hasGroup)
            ELSE groupHandlerUpdate(m, hasGroup)
    ELSE \* via records, for the properties only, that the event was the
         \* logged-in user's own removal; the continuation does not see it.
         /\ pending' = inFlight \cup
               {[Op("groupHandler", m) EXCEPT
                   !.via = IF action \in {"kicked", "banned", "left"} /\ actionOn = Me
                           THEN "selfRemoval" ELSE "-"]}
         /\ step' = "groupHandler:derive"
         /\ UNCHANGED <<store, inPlace>>

\* groupHandler called by a listener.
groupHandler(m, action, actionOn, hasGroup) ==
    groupHandlerFrom(pending, m, action, actionOn, hasGroup)

\* CometChat.addGroupListener: scope changed, kicked, left, banned (with the
\* details) and unbanned, joined (action "none": the message alone).
GroupListener(g, action, actionOn) ==
    /\ Deliver
    /\ groupHandler(ActionMessage(g), action, actionOn, action # "none")
    /\ UNCHANGED <<sel, props, render, effects, life, login, ui, notified>>

\* The continuation re-entering groupHandler without looking the record up.
groupHandlerThen_ReentersUnchecked(op) ==
    /\ op \in pending /\ op.k = "groupHandler"
    /\ groupHandlerFrom(pending \ {op}, op.m, "none", "", FALSE)
    /\ UNCHANGED <<sel, props, render, effects, life, login, clock, ui, notified>>

\* The derivation of groupHandler resolves: the record is looked up again;
\* if it is there groupHandler(message) is re-entered, else the derived
\* conversation is added.
groupHandlerThen(op) ==
    /\ op \in pending /\ op.k = "groupHandler"
    /\ IF "A" \notin mounted
       THEN \* conversationListRef.current!.getListItem on null; the promise
            \* has no catch
            /\ pending' = pending \ {op}
            /\ step' = "groupHandler:unhandledRejection"
            /\ UNCHANGED <<store, inPlace>>
       ELSE IF Has(store, op.m.conv)
       THEN groupHandlerFrom(pending \ {op}, op.m, "none", "", FALSE)
       ELSE /\ pending' = pending \ {op}
            /\ store' \in addItemToList(store, getConversationFromMessage(op.m))
            /\ step' = "groupHandler:added"
            /\ UNCHANGED inPlace
    /\ UNCHANGED <<sel, props, render, effects, life, login, clock, ui, notified>>

\* The derivation of groupHandler rejects: nothing handles it.
groupHandlerRejected(op) ==
    /\ op \in pending /\ op.k = "groupHandler"
    /\ pending' = pending \ {op}
    /\ step' = "groupHandler:unhandledRejection"
    /\ UNCHANGED <<store, sel, props, render, effects, life, inPlace, login, clock, ui, notified>>

\* updateConversationLastMessage, lines 981-983.
updateConversationLastMessageRecord(conversation, m) ==
    [conversation EXCEPT !.last = m, !.with = EventParty(FALSE)]

\* updateConversationLastMessage(message, group).
updateConversationLastMessage(m) ==
    IF Has(store, m.conv)
    THEN /\ store' = updateAndMoveToFirst(store,
                        updateConversationLastMessageRecord(getListItem(store, m.conv), m))
         /\ step' = "updateConversationLastMessage:updated"
         /\ UNCHANGED pending
    ELSE /\ pending' = pending \cup {Op("updateConversationLastMessage", m)}
         /\ step' = "updateConversationLastMessage:derive"
         /\ UNCHANGED store

\* ccGroupMemberKicked and ccGroupMemberAdded.
ccGroupMemberKickedOrAdded(g) ==
    LET m == ActionMessage(g)
    IN  /\ Deliver
        /\ IF shouldUpdateLastMessageAndUnreadCount(m)
           THEN updateConversationLastMessage(m)
           ELSE /\ step' = "ccGroupMember:rejected"
                /\ UNCHANGED <<store, pending>>
        /\ UNCHANGED <<sel, props, render, effects, life, inPlace, login, ui, notified>>

updateConversationLastMessageThen(op) ==
    /\ op \in pending /\ op.k = "updateConversationLastMessage"
    /\ pending' = pending \ {op}
    /\ store' \in addItemToList(store, newConversationRecord(op.m))
    /\ step' = "updateConversationLastMessage:added"
    /\ UNCHANGED <<sel, props, render, effects, life, inPlace, login, clock, ui, notified>>

updateConversationLastMessageCatch(op) ==
    /\ op \in pending /\ op.k = "updateConversationLastMessage"
    /\ pending' = pending \ {op}
    /\ step' = "updateConversationLastMessage:onError"
    /\ UNCHANGED <<store, sel, props, render, effects, life, inPlace, login, clock, ui, notified>>

\* ccGroupMemberBanned and ccGroupMemberUnBanned.
ccGroupMemberBannedOrUnBanned(g) ==
    LET m == ActionMessage(g)
    IN  /\ Deliver
        /\ IF shouldUpdateLastMessageAndUnreadCount(m)
           THEN groupHandler(m, "none", "", FALSE)
           ELSE /\ step' = "ccGroupMember:rejected"
                /\ UNCHANGED <<store, pending, inPlace>>
        /\ UNCHANGED <<sel, props, render, effects, life, login, ui, notified>>

ccOwnershipChanged(g) ==
    LET m == ActionMessage(g)
    IN  /\ Deliver
        /\ IF shouldUpdateLastMessageAndUnreadCount(m)
           THEN /\ pending' = pending \cup {Op("ccOwnershipChanged", m)}
                /\ step' = "ccOwnershipChanged:derive"
           ELSE /\ step' = "ccGroupMember:rejected"
                /\ UNCHANGED pending
        /\ UNCHANGED <<store, sel, props, render, effects, life, inPlace, login, ui, notified>>

ccOwnershipChangedThen(op) ==
    /\ op \in pending /\ op.k = "ccOwnershipChanged"
    /\ pending' = pending \ {op}
    /\ store' = updateList(store, getConversationFromMessage(op.m))
    /\ step' = "ccOwnershipChanged:updated"
    /\ UNCHANGED <<sel, props, render, effects, life, inPlace, login, clock, ui, notified>>

ccOwnershipChangedCatch(op) ==
    /\ op \in pending /\ op.k = "ccOwnershipChanged"
    /\ pending' = pending \ {op}
    /\ step' = "ccOwnershipChanged:onError"
    /\ UNCHANGED <<store, sel, props, render, effects, life, inPlace, login, clock, ui, notified>>

(***************************************************************************)
(* Selection.                                                              *)
(***************************************************************************)
RECURSIVE FindFrom(_, _, _)
FindFrom(list, id, i) ==
    IF i > Len(list) THEN 0
    ELSE IF list[i] = id THEN i
    ELSE FindFrom(list, id, i + 1)

\* selectedConversation.findIndex(c => c.getConversationId() == id), 1-based.
findIndex(list, id) == FindFrom(list, id, 1)

\* The selection list as the listeners registered at mount see it: their
\* closures hold the value of the first render.
MountSelection == <<>>

\* removeItemFromSelectionList(id) run by a closure that captured the
\* selection list `captured`: the value the selection state has afterwards.
removeItemFromSelectionList(captured, id) ==
    IF selecting /\ findIndex(captured, id) > 0
    THEN RemoveAt(captured, findIndex(captured, id))
    ELSE selectedConversation

\* conversationClicked(conversation); hasOnItemPress: the prop onItemPress
\* is supplied.
conversationClicked(id, hasOnItemPress) ==
    IF hasOnItemPress \/ ~selecting \/ selectionMode = "none"
    THEN selectedConversation
    ELSE IF findIndex(selectedConversation, id) = 0
    THEN IF selectionMode = "single" THEN <<id>>
         ELSE IF selectionMode = "multiple" THEN Append(selectedConversation, id)
         ELSE selectedConversation
    ELSE RemoveAt(selectedConversation, findIndex(selectedConversation, id))

\* onItemPress as it would be if the list's press were handed to
\* conversationClicked in every selection mode.
onItemPress_InEveryMode(id, hasOnItemPress) ==
    /\ Deliver
    /\ id \in Ids(store)
    /\ selectedConversation' = conversationClicked(id, hasOnItemPress)
    /\ step' = "onItemPress"
    /\ UNCHANGED <<store, selecting, props, render, effects, life, inPlace, login, pending, ui, notified>>

\* The onItemPress the component hands to the list, lines 1607-1609.
onItemPress(id, hasOnItemPress) ==
    /\ Deliver
    /\ id \in Ids(store)
    /\ selectedConversation' =
          IF selectionMode = "none" THEN conversationClicked(id, hasOnItemPress)
          ELSE selectedConversation
    /\ step' = "onItemPress"
    /\ UNCHANGED <<store, selecting, props, render, effects, life, inPlace, login, pending, ui, notified>>

(***************************************************************************)
(* Group lifecycle events of the UI.                                       *)
(***************************************************************************)
\* A pseudo message naming the conversation an operation is about.
About(id) == Message(0, "none", "", id, FALSE, FALSE, FALSE)

\* ccGroupCreated: the group was created just now, so no conversation with it
\* is in the store when the event is emitted.
ccGroupCreated(g) ==
    /\ Deliver
    /\ ~Has(store, GroupKey(g))
    /\ Op("ccGroupCreated", About(GroupKey(g))) \notin pending
    /\ pending' = pending \cup {Op("ccGroupCreated", About(GroupKey(g)))}
    /\ step' = "ccGroupCreated"
    /\ UNCHANGED <<store, sel, props, render, effects, life, inPlace, login, ui, notified>>

ccGroupCreatedThen(op) ==
    /\ op \in pending /\ op.k = "ccGroupCreated"
    /\ pending' = pending \ {op}
    /\ store' \in addItemToList(store, getConversation(Party(op.m.conv)))
    /\ step' = "ccGroupCreated:added"
    /\ UNCHANGED <<sel, props, render, effects, life, inPlace, login, clock, ui, notified>>

ccGroupCreatedRejected(op) ==
    /\ op \in pending /\ op.k = "ccGroupCreated"
    /\ pending' = pending \ {op}
    /\ step' = "ccGroupCreated:unhandledRejection"
    /\ UNCHANGED <<store, sel, props, render, effects, life, inPlace, login, clock, ui, notified>>

ccGroupDeleted(g) ==
    /\ Deliver
    /\ pending' = pending \cup {Op("ccGroupDeleted", About(GroupKey(g)))}
    /\ step' = "ccGroupDeleted"
    /\ UNCHANGED <<store, sel, props, render, effects, life, inPlace, login, ui, notified>>

ccGroupDeletedThen(op) ==
    /\ op \in pending /\ op.k = "ccGroupDeleted"
    /\ pending' = pending \ {op}
    /\ store' = removeItemFromList(store, op.m.conv)
    /\ selectedConversation' = removeItemFromSelectionList(MountSelection, op.m.conv)
    /\ step' = "ccGroupDeleted:removed"
    /\ UNCHANGED <<selecting, props, render, effects, life, inPlace, login, clock, ui, notified>>

ccGroupDeletedRejected(op) ==
    /\ op \in pending /\ op.k = "ccGroupDeleted"
    /\ pending' = pending \ {op}
    /\ step' = "ccGroupDeleted:unhandledRejection"
    /\ UNCHANGED <<store, sel, props, render, effects, life, inPlace, login, clock, ui, notified>>

\* ccGroupLeft: the first record whose opposing party is the group.
ccGroupLeft(g) ==
    /\ Deliver
    /\ IF \E i \in 1..Len(store) : store[i].id.t = "group" /\ Party(store[i].id) = g
       THEN LET i == CHOOSE i \in 1..Len(store) :
                        /\ store[i].id.t = "group" /\ Party(store[i].id) = g
                        /\ \A j \in 1..(i - 1) :
                              ~(store[j].id.t = "group" /\ Party(store[j].id) = g)
            IN  /\ store' = removeItemFromList(store, store[i].id)
                /\ selectedConversation' =
                      removeItemFromSelectionList(MountSelection, store[i].id)
                /\ step' = "ccGroupLeft:removed"
       ELSE /\ step' = "ccGroupLeft:absent"
            /\ UNCHANGED <<store, selectedConversation>>
    /\ UNCHANGED <<selecting, props, render, effects, life, inPlace, login, pending, ui, notified>>

(***************************************************************************)
(* Call events.                                                            *)
(***************************************************************************)
CallMessage(id) ==
    Message(NextMid, "call", IF id.t = "group" THEN "u1" ELSE Party(id), id,
            FALSE, FALSE, FALSE)

\* updateUnreadMessageCount(conversation) for a conversation in the store.
updateUnreadMessageCount(oldConversation) ==
    [oldConversation EXCEPT !.unread = @ + 1]

\* The record a call handler of CometChat.addCallListener hands to updateList.
callListenerRecord(oldConversation, call) ==
    [updateUnreadMessageCount(oldConversation) EXCEPT !.last = call]

\* The record a call handler of CometChatUIEventHandler.addCallListener hands
\* to updateList.
ccCallRecord(oldConversation, call) == updateUnreadMessageCount(oldConversation)

\* onIncomingCallReceived, onOutgoingCallAccepted, onOutgoingCallRejected,
\* onIncomingCallCancelled (channel "CallListener"); ccOutgoingCall,
\* ccCallAccepted, ccCallRejected, ccCallEnded (channel "ccCall").
callEvent(channel, id) ==
    /\ Deliver
    /\ pending' = pending \cup {Op(channel, CallMessage(id))}
    /\ step' = channel
    /\ UNCHANGED <<store, sel, props, render, effects, life, inPlace, login, ui, notified>>

\* The continuation of a call handler not consulting the setting.
callEventThen_IgnoresSetting(op) ==
    /\ op \in pending /\ op.k \in {"CallListener", "ccCall"}
    /\ pending' = pending \ {op}
    /\ step' = "call:updated"
    /\ IF Has(store, op.m.conv)
       THEN /\ MutatesHeld(callListenerRecord(getListItem(store, op.m.conv), op.m))
            /\ store' = updateList(store,
                           callListenerRecord(getListItem(store, op.m.conv), op.m))
       ELSE UNCHANGED <<store, inPlace>>
    /\ UNCHANGED <<sel, props, render, effects, life, login, clock, ui, notified>>

\* The derivation of a call handler resolves.  For a conversation that is not
\* in the store the derived record (unread count 1) goes to updateList, which
\* finds nothing to replace.
callEventThen(op) ==
    /\ op \in pending /\ op.k \in {"CallListener", "ccCall"}
    /\ pending' = pending \ {op}
    /\ IF ~settings.calls
       THEN /\ step' = "call:off"
            /\ UNCHANGED <<store, inPlace>>
       ELSE IF "A" \notin mounted
       THEN \* conversationListRef.current!.getListItem on null, caught: onError
            /\ step' = "call:onError"
            /\ UNCHANGED <<store, inPlace>>
       ELSE /\ step' = "call:updated"
            /\ IF Has(store, op.m.conv)
               THEN MutatesHeld(IF op.k = "CallListener"
                                THEN callListenerRecord(getListItem(store, op.m.conv), op.m)
                                ELSE ccCallRecord(getListItem(store, op.m.conv), op.m))
               ELSE UNCHANGED inPlace
            /\ store' =
                 IF Has(store, op.m.conv)
                 THEN updateList(store,
                        IF op.k = "CallListener"
                        THEN callListenerRecord(getListItem(store, op.m.conv), op.m)
                        ELSE ccCallRecord(getListItem(store, op.m.conv), op.m))
                 ELSE updateList(store,
                        [getConversationFromMessage(op.m) EXCEPT !.unread = 1])
    /\ UNCHANGED <<sel, props, render, effects, life, login, clock, ui, notified>>

callEventCatch(op) ==
    /\ op \in pending /\ op.k \in {"CallListener", "ccCall"}
    /\ pending' = pending \ {op}
    /\ step' = "call:onError"
    /\ UNCHANGED <<store, sel, props, render, effects, life, inPlace, login, clock, ui, notified>>

(***************************************************************************)
(* Typing events.                                                          *)
(***************************************************************************)
\* A typing indicator: receiverType, sender uid, receiverId.
TypingIndicators ==
    {[rtype |-> "user", sender |-> u, receiver |-> Me] : u \in Users}
    \cup {[rtype |-> "group", sender |-> u, receiver |-> g] : u \in Users, g \in Groups}

\* The find predicate without the test of the blocked relationship.
MatchesTypingIndicator_IgnoresBlocked(item, ind) ==
    \/ /\ ind.rtype = "user"
       /\ item.id.t = "user"
       /\ Party(item.id) = ind.sender
    \/ /\ ind.rtype = "group"
       /\ item.id.t = "group"
       /\ Party(item.id) = ind.receiver

\* The predicate of getConversationRefFromTypingIndicator's find.
MatchesTypingIndicator(item, ind) ==
    \/ /\ ind.rtype = "user"
       /\ item.id.t = "user"
       /\ Party(item.id) = ind.sender
       /\ ~item.with.blocked
    \/ /\ ind.rtype = "group"
       /\ item.id.t = "group"
       /\ Party(item.id) = ind.receiver

RECURSIVE FindTyping(_, _, _)
FindTyping(s, ind, i) ==
    IF i > Len(s) THEN 0
    ELSE IF MatchesTypingIndicator(s[i], ind) THEN i
    ELSE FindTyping(s, ind, i + 1)

\* getConversationRefFromTypingIndicator: the index of the first match, or 0.
getConversationRefFromTypingIndicator(s, ind) == FindTyping(s, ind, 1)

\* The annotation a typing-started event writes.
TypingText(ind) == IF ind.rtype = "group" THEN ind.sender ELSE "IS_TYPING"

\* typingEventHandler, lines 408-415: the annotation of the cloned record.
typingAnnotation(conversation, ind, isTyping) ==
    IF isTyping /\ conversation.last.typing = "none"
    THEN TypingText(ind)
    ELSE "none"

\* The typing handler writing a record whose unread count is lost.
typingRecord_DropsUnread(conversation, ind, isTyping) ==
    [conversation EXCEPT !.last.typing = typingAnnotation(conversation, ind, isTyping),
                         !.unread = 0]

\* typingEventHandler, lines 402-415: the clone with the annotation toggled.
typingRecord(conversation, ind, isTyping) ==
    [conversation EXCEPT !.last.typing = typingAnnotation(conversation, ind, isTyping)]

\* typingEventHandler(typingIndicator, isTyping).
typingEventHandler(ind, isTyping) ==
    LET i == getConversationRefFromTypingIndicator(store, ind)
    IN  /\ Deliver
        /\ IF i = 0
           THEN /\ step' = "typing:absent"
                /\ UNCHANGED store
           ELSE IF store[i].last = NoMessage
           THEN \* newConversation["lastMessage"] is undefined
                /\ step' = "typing:TypeError"
                /\ UNCHANGED store
           ELSE /\ store' = updateList(store, typingRecord(store[i], ind, isTyping))
                /\ step' = IF isTyping THEN "typing:started" ELSE "typing:ended"
        /\ UNCHANGED <<sel, props, render, effects, life, inPlace, login, pending, ui, notified>>

(***************************************************************************)
(* Block and unblock.                                                      *)
(***************************************************************************)
\* getListItem(`${uid}_user_${me}`) || getListItem(`${me}_user_${uid}`):
\* the id that resolves, NoId when neither does.
ResolveUser(s, uid) ==
    IF Has(s, UserKey(uid, loggedInUser)) THEN UserKey(uid, loggedInUser)
    ELSE IF Has(s, UserKey(loggedInUser, uid)) THEN UserKey(loggedInUser, uid)
    ELSE NoId

ccUserBlocked(uid) ==
    LET id == ResolveUser(store, uid)
    IN  /\ Deliver
        /\ IF includeBlocked
           THEN /\ IF id # NoId
                   THEN /\ store' = updateList(store,
                              [getListItem(store, id) EXCEPT !.with = EventParty(TRUE)])
                        /\ step' = "ccUserBlocked:updated"
                   ELSE /\ step' = "ccUserBlocked:absent"
                        /\ UNCHANGED store
                /\ UNCHANGED selectedConversation
           ELSE IF id = NoId
           THEN \* item.getConversationId() on undefined
                /\ step' = "ccUserBlocked:TypeError"
                /\ UNCHANGED <<store, selectedConversation>>
           ELSE /\ store' = removeItemFromList(store, id)
                /\ selectedConversation' = removeItemFromSelectionList(MountSelection, id)
                /\ step' = "ccUserBlocked:removed"
        /\ UNCHANGED <<selecting, props, render, effects, life, inPlace, login, pending, ui, notified>>

ccUserUnBlocked(uid) ==
    LET id == ResolveUser(store, uid)
    IN  /\ Deliver
        /\ IF id # NoId
           THEN /\ store' = updateList(store,
                      [getListItem(store, id) EXCEPT !.with = EventParty(FALSE)])
                /\ step' = "ccUserUnBlocked:updated"
           ELSE /\ step' = "ccUserUnBlocked:absent"
                /\ UNCHANGED store
        /\ UNCHANGED <<sel, props, render, effects, life, inPlace, login, pending, ui, notified>>

(***************************************************************************)
(* Presence.                                                               *)
(***************************************************************************)
\* userEventHandler, lines 367-369: the clone with the snapshot replaced.
userEventRecord(conversation) == [conversation EXCEPT !.with = EventParty(FALSE)]

\* userEventHandler(user): onUserOnline and onUserOffline.
userEventHandler(uid) ==
    LET id == ResolveUser(store, uid)
    IN  /\ Deliver
        /\ IF id = NoId
           THEN \* item.getConversationWith() on undefined
                /\ step' = "userEventHandler:TypeError"
                /\ UNCHANGED store
           ELSE IF getListItem(store, id).with.blocked
           THEN /\ step' = "userEventHandler:blocked"
                /\ UNCHANGED store
           ELSE /\ store' = updateList(store, userEventRecord(getListItem(store, id)))
                /\ step' = "userEventHandler:updated"
        /\ UNCHANGED <<sel, props, render, effects, life, inPlace, login, pending, ui, notified>>

(***************************************************************************)
(* Receipts.                                                               *)
(***************************************************************************)
ReadKinds == {"read", "readByAll"}
DeliveredKinds == {"delivered", "deliveredToAll"}

\* A message receipt: receiver type, receiver, sender, receipt type, message
\* id and the two timestamps (0 when the receipt does not carry one).
MessageReceipt(rtype, receiver, sender, kind, mid) ==
    [rtype |-> rtype, receiver |-> receiver, sender |-> sender, kind |-> kind,
     mid |-> mid,
     readAt |-> IF kind \in ReadKinds THEN clock + 1 ELSE 0,
     deliveredAt |-> IF kind \in DeliveredKinds THEN clock + 1 ELSE 0]

Receipts ==
    {MessageReceipt("user", Me, u, kind, mid) :
        u \in Users, kind \in {"read", "delivered"}, mid \in 1..2}
    \cup
    {MessageReceipt("user", u, Me, kind, mid) :
        u \in Users, kind \in {"read", "delivered"}, mid \in 1..2}
    \cup
    {MessageReceipt("group", g, u, kind, mid) :
        g \in Groups, u \in Users, kind \in ReadKinds \cup DeliveredKinds,
        mid \in 1..2}

\* The receipt look-up taking any receipt of a group for the group's record.
ReceiptConversation_AnyGroupReceipt(s, r) ==
    IF r.rtype = "user"
    THEN IF Has(s, UserKey(r.receiver, r.sender)) THEN UserKey(r.receiver, r.sender)
         ELSE IF Has(s, UserKey(r.sender, r.receiver)) THEN UserKey(r.sender, r.receiver)
         ELSE NoId
    ELSE IF Has(s, GroupKey(r.receiver))
         THEN GroupKey(r.receiver)
         ELSE NoId

\* updateMessageReceipt, lines 561-574: the id the receipt resolves to, NoId
\* when it resolves to no record.
ReceiptConversation(s, r) ==
    IF r.rtype = "user"
    THEN IF Has(s, UserKey(r.receiver, r.sender)) THEN UserKey(r.receiver, r.sender)
         ELSE IF Has(s, UserKey(r.sender, r.receiver)) THEN UserKey(r.sender, r.receiver)
         ELSE NoId
    ELSE IF r.kind \in {"deliveredToAll", "readByAll"} /\ Has(s, GroupKey(r.receiver))
         THEN GroupKey(r.receiver)
         ELSE NoId

\* The receipt handler resetting the unread count as well.
receiptRecord_ResetsUnread(conversation, r) ==
    [conversation EXCEPT !.last.readAt = IF r.readAt # 0 THEN r.readAt ELSE @,
                         !.last.deliveredAt = IF r.deliveredAt # 0 THEN r.deliveredAt ELSE @,
                         !.unread = 0]

\* updateMessageReceipt, lines 590-598: the clone with the timestamps set.
receiptRecord(conversation, r) ==
    [conversation EXCEPT !.last.readAt = IF r.readAt # 0 THEN r.readAt ELSE @,
                         !.last.deliveredAt = IF r.deliveredAt # 0 THEN r.deliveredAt ELSE @]

\* updateMessageReceipt(receipt).
updateMessageReceipt(r) ==
    LET id == ReceiptConversation(store, r)
    IN  /\ Deliver
        /\ IF id = NoId
           THEN /\ step' = "updateMessageReceipt:absent"
                /\ UNCHANGED store
           ELSE IF getListItem(store, id).last = NoMessage
           THEN \* conv.getLastMessage() is undefined
                /\ step' = "updateMessageReceipt:TypeError"
                /\ UNCHANGED store
           ELSE IF id.t = "group" /\ loggedInUser = Undefined
           THEN \* loggedInUser.current!.getUid() on undefined
                /\ step' = "updateMessageReceipt:TypeError"
                /\ UNCHANGED store
           ELSE IF id.t = "group" /\ getListItem(store, id).last.sender # loggedInUser
           THEN /\ step' = "updateMessageReceipt:notMine"
                /\ UNCHANGED store
           ELSE IF getListItem(store, id).last.mid = r.mid
           THEN /\ store' = updateList(store, receiptRecord(getListItem(store, id), r))
                /\ step' = "updateMessageReceipt:updated"
           ELSE /\ step' = "updateMessageReceipt:other"
                /\ UNCHANGED store
        /\ UNCHANGED <<sel, props, render, effects, life, inPlace, login, pending, ui, notified>>

(***************************************************************************)
(* The delete flow.                                                        *)
(***************************************************************************)
\* onItemLongPress with no onItemLongPress prop and a native event.
onItemLongPress(id) ==
    /\ Deliver
    /\ id \in Ids(store)
    /\ IF selectionMode = "none"
       THEN /\ longPressId' = id
            /\ tooltipVisible' = TRUE
       ELSE UNCHANGED <<longPressId, tooltipVisible>>
    /\ step' = "onItemLongPress"
    /\ UNCHANGED <<store, sel, props, render, effects, life, inPlace, login, pending, confirmDelete, notified>>

\* The tooltip's Delete item.
onPressDelete ==
    /\ tooltipVisible
    /\ confirmDelete' = longPressId
    /\ tooltipVisible' = FALSE
    /\ step' = "onPressDelete"
    /\ UNCHANGED <<store, sel, props, render, effects, life, inPlace, login, pending, clock, longPressId, notified>>

\* The tooltip's onClose.
onClose ==
    /\ tooltipVisible
    /\ tooltipVisible' = FALSE
    /\ step' = "onClose"
    /\ UNCHANGED <<store, sel, props, render, effects, life, inPlace, login, pending, clock, longPressId,
                   confirmDelete, notified>>

\* The confirmation dialog's onCancel.
onCancel ==
    /\ confirmDelete # NoId
    /\ confirmDelete' = NoId
    /\ step' = "onCancel"
    /\ UNCHANGED <<store, sel, props, render, effects, life, inPlace, login, pending, clock, longPressId,
                   tooltipVisible, notified>>

\* removeConversation(id): the delete command it starts.
removeConversation(id) ==
    [Op("deleteConversation", About(id)) EXCEPT !.sel = selectedConversation]

\* The confirmation dialog's onConfirm.
onConfirm ==
    /\ confirmDelete # NoId
    /\ IF ~Has(store, confirmDelete)
       THEN \* removeConversation destructures undefined; setConfirmDelete is not reached
            /\ step' = "onConfirm:TypeError"
            /\ UNCHANGED <<pending, confirmDelete>>
       ELSE /\ pending' = pending \cup {removeConversation(confirmDelete)}
            /\ confirmDelete' = NoId
            /\ step' = "onConfirm"
    /\ UNCHANGED <<store, sel, props, render, effects, life, inPlace, login, clock, longPressId, tooltipVisible, notified>>

\* ccConversationDeleted as this instance's own listener handles it.
ccConversationDeleted(s, id) == removeItemFromList(s, id)

\* CometChat.deleteConversation resolves: the event is emitted (and handled by
\* this instance's listener), then the record and its selection entry go.
deleteConversationThen(op) ==
    /\ op \in pending /\ op.k = "deleteConversation"
    /\ pending' = pending \ {op}
    /\ notified' = notified \cup {op.m.conv}
    /\ store' = removeItemFromList(ccConversationDeleted(store, op.m.conv), op.m.conv)
    /\ selectedConversation' = removeItemFromSelectionList(op.sel, op.m.conv)
    /\ step' = "removeConversation:removed"
    /\ UNCHANGED <<selecting, props, render, effects, life, inPlace, login, clock, ui>>

\* The failure path removing the record all the same.
deleteConversationCatch_Removes(op) ==
    /\ op \in pending /\ op.k = "deleteConversation"
    /\ pending' = pending \ {op}
    /\ store' = removeItemFromList(store, op.m.conv)
    /\ step' = "removeConversation:catch"
    /\ UNCHANGED <<sel, props, render, effects, life, inPlace, login, clock, ui, notified>>

\* CometChat.deleteConversation rejects: console.log.
deleteConversationCatch(op) ==
    /\ op \in pending /\ op.k = "deleteConversation"
    /\ pending' = pending \ {op}
    /\ step' = "removeConversation:catch"
    /\ UNCHANGED <<store, sel, props, render, effects, life, inPlace, login, clock, ui, notified>>

(***************************************************************************)
(* The Update Policy over every event shape and every setting.             *)
(***************************************************************************)
AllSettings ==
    {[replies |-> re, custom |-> cu, groupActions |-> ga, calls |-> ca] :
        re \in BOOLEAN, cu \in BOOLEAN, ga \in BOOLEAN, ca \in BOOLEAN}

\* The shapes of a message the policy tells apart: category, receiver type
\* (through the conversation), thread reply or not, and a custom message's
\* willUpdateConversation() and metadata.incrementUnreadCount.
MessageShapes ==
    {Message(NextMid, cat, Me, id, parent, willUpdate, incFlag) :
        cat \in {"message", "custom", "action", "call"}, id \in ConvIds,
        parent \in BOOLEAN, willUpdate \in BOOLEAN, incFlag \in BOOLEAN}

\* A mounted instance under any of the sixteen settings.
InitPolicy ==
    /\ store = FetchedPage
    /\ selectedConversation = <<>>
    /\ selectionMode = "none"
    /\ selecting = FALSE
    /\ loggedInUser = Me
    /\ loginPending = FALSE
    /\ settings \in AllSettings
    /\ includeBlocked = FALSE
    /\ pending = {}
    /\ clock = 0
    /\ longPressId = NoId
    /\ tooltipVisible = FALSE
    /\ confirmDelete = NoId
    /\ notified = {}
    /\ mounted = {"A"}
    /\ listeners = {Registration("A", ch) : ch \in Channels}
    /\ timer = NoTimer
    /\ inPlace = FALSE
    /\ disableSoundForMessages = FALSE
    /\ effects = {}
    /\ groupTypeVisibility = TRUE
    /\ usersStatusVisibility = TRUE
    /\ textFormatters = <<>>
    /\ rendered = NoView
    /\ step = "mount"

\* Sent messages of every shape go through the policy and on to the store.
NextPolicy ==
    \/ \E m \in MessageShapes : clock < MaxPolicyEvents /\ ccMessageSentOf(m, "success")
    \/ \E op \in pending : updateLastMessageThen(op)
    \/ \E op \in pending : updateLastMessageAdd(op)

SpecPolicy == InitPolicy /\ [][NextPolicy]_vars

(***************************************************************************)
(* Message events with their edits.                                        *)
(***************************************************************************)
\* Received messages: a text message, or a custom message with or without
\* the increment-unread flag, from the other party.
ReceivedShapes ==
    {Message(NextMid, cat, "u1", id, FALSE, FALSE, incFlag) :
        cat \in {"message", "custom"},
        id \in {ConversationIdOfUser("u1"), GroupKey("g1")},
        incFlag \in BOOLEAN}

\* A mounted instance whose lookup of the logged-in user has resolved.
InitEdits ==
    /\ store = FetchedPage
    /\ selectedConversation = <<>>
    /\ selectionMode = "none"
    /\ selecting = FALSE
    /\ loggedInUser = Me
    /\ loginPending = FALSE
    /\ settings \in SettingsChoices
    /\ includeBlocked = FALSE
    /\ pending = {}
    /\ clock = 0
    /\ longPressId = NoId
    /\ tooltipVisible = FALSE
    /\ confirmDelete = NoId
    /\ notified = {}
    /\ mounted = {"A"}
    /\ listeners = {Registration("A", ch) : ch \in Channels}
    /\ timer = NoTimer
    /\ inPlace = FALSE
    /\ disableSoundForMessages = FALSE
    /\ effects = {}
    /\ groupTypeVisibility = TRUE
    /\ usersStatusVisibility = TRUE
    /\ textFormatters = <<>>
    /\ rendered = NoView
    /\ step = "mount"

NextEdits ==
    \/ \E m \in ReceivedShapes : onMessageReceivedOf(m)
    \/ \E op \in pending : updateLastMessageThen(op)
    \/ \E op \in pending : updateLastMessageCatch(op)
    \/ \E i \in 1..Len(store) : \E m \in EditedVersions(store[i].last) :
          /\ store[i].last # NoMessage
          /\ checkAndUpdateLastMessage(m)
    \/ \E id \in ConvIds : checkAndUpdateLastMessage(OlderMessage(id))
    \/ \E op \in pending : checkAndUpdateLastMessageThen(op)
    \/ \E op \in pending : checkAndUpdateLastMessageRejected(op)
    \/ \E ind \in TypingIndicators : typingEventHandler(ind, TRUE)
    \/ \E g \in Groups : ccOwnershipChanged(g)
    \/ \E op \in pending : ccOwnershipChangedThen(op)
    \/ \E op \in pending : ccOwnershipChangedCatch(op)

SpecEdits == InitEdits /\ [][NextEdits]_vars

(***************************************************************************)
(* User events, receipts and the delete flow.                              *)
(***************************************************************************)
NextUsers ==
    \/ getLoggedinUserResolved
    \/ getLoggedinUserRejected
    \/ \E u \in Users : userEventHandler(u)
    \/ \E u \in Users : ccUserBlocked(u)
    \/ \E u \in Users : ccUserUnBlocked(u)
    \/ \E r \in Receipts : updateMessageReceipt(r)
    \/ \E ind \in TypingIndicators, isTyping \in BOOLEAN : typingEventHandler(ind, isTyping)
    \/ \E id \in ConvIds : onItemLongPress(id)
    \/ onPressDelete
    \/ onClose
    \/ onCancel
    \/ onConfirm
    \/ \E op \in pending : deleteConversationThen(op)
    \/ \E op \in pending : deleteConversationCatch(op)

SpecUsers == Init /\ [][NextUsers]_vars

(***************************************************************************)
(* Mount, teardown and the events of every subscription.                   *)
(***************************************************************************)
\* A second instance of the component mounts: its mount effect registers
\* its eight listeners.
Mount(inst) ==
    /\ inst \notin mounted
    /\ mounted' = mounted \cup {inst}
    /\ \E keyed \in BOOLEAN : listeners' = addListeners(listeners, inst, Channels, keyed)
    /\ step' = "mount"
    /\ UNCHANGED <<store, sel, props, render, effects, timer, inPlace, login, pending, clock, ui, notified>>

\* An instance unmounts: the cleanup of its mount effect runs.
Unmount(inst) ==
    /\ inst \in mounted
    /\ mounted' = mounted \ {inst}
    /\ listeners' = removeListeners(listeners, inst, CleanedChannels)
    /\ step' = "unmount"
    /\ UNCHANGED <<store, sel, props, render, effects, timer, inPlace, login, pending, clock, ui, notified>>

\* The followed instance has a listener registered on the channel.
Hears(ch) == "A" \in Receivers(ch)

\* onMemberAddedToGroup: a pending timer is cleared and a new one set.
onMemberAddedToGroup(g) ==
    /\ Deliver
    /\ timer' = [t |-> "pending", m |-> ActionMessage(g)]
    /\ step' = "onMemberAddedToGroup"
    /\ UNCHANGED <<store, sel, props, render, effects, mounted, listeners, inPlace, login, pending,
                   ui, notified>>

\* The 50 ms timer fires: groupHandler(message, {action: "joined", ...}).
\* After the teardown the list reference is null.
onMemberAddedToGroupTimeout ==
    /\ timer.t = "pending"
    /\ timer' = [timer EXCEPT !.t = "fired"]
    /\ IF "A" \in mounted
       THEN groupHandler(timer.m, "joined", "u1", TRUE)
       ELSE \* conversationListRef.current!.getListItem on null
            /\ step' = "groupHandler:TypeError"
            /\ UNCHANGED <<store, pending, inPlace>>
    /\ UNCHANGED <<sel, props, render, effects, mounted, listeners, login, clock, ui, notified>>

\* ccConversationDeleted emitted elsewhere in the application.
onConversationDeleted(id) ==
    /\ Deliver
    /\ store' = ccConversationDeleted(store, id)
    /\ selectedConversation' = removeItemFromSelectionList(MountSelection, id)
    /\ step' = "ccConversationDeleted"
    /\ UNCHANGED <<selecting, props, render, effects, life, inPlace, login, pending, ui, notified>>

NextLifecycle ==
    \/ Mount("B")
    \/ \E inst \in Instances : Unmount(inst)
    \/ getLoggedinUserResolved
    \/ \E u \in Users : Hears("sdkUser") /\ userEventHandler(u)
    \/ \E id \in ConvIds : Hears("sdkCall") /\ callEvent("CallListener", id)
    \/ \E id \in ConvIds : Hears("uiCall") /\ callEvent("ccCall", id)
    \/ \E op \in pending : callEventThen(op)
    \/ \E op \in pending : callEventCatch(op)
    \/ \E g \in Groups : Hears("sdkGroup") /\ onMemberAddedToGroup(g)
    \/ onMemberAddedToGroupTimeout
    \/ \E op \in pending : groupHandlerThen(op)
    \/ \E op \in pending : groupHandlerRejected(op)
    \/ \E id \in ConvIds : Hears("uiConversation") /\ onConversationDeleted(id)
    \/ \E id \in ConvIds : Hears("uiMessage") /\ ccMessageSent(id, "success", FALSE)
    \/ \E op \in pending : updateLastMessageThen(op)
    \/ \E op \in pending : updateLastMessageCatch(op)
    \/ \E op \in pending : updateLastMessageAdd(op)
    \/ \E g \in Groups : Hears("uiGroup") /\ ccGroupLeft(g)
    \/ \E u \in Users : Hears("uiUser") /\ ccUserUnBlocked(u)

SpecLifecycle == Init /\ [][NextLifecycle]_vars

(***************************************************************************)
(* Group actions for a group whose conversation is not on the page.        *)
(***************************************************************************)
\* The fetched page holds the direct conversation only: the group's
\* conversation is not among the conversations fetched.
InitGroups ==
    /\ store = SubSeq(FetchedPage, 1, 1)
    /\ selectedConversation = <<>>
    /\ selectionMode = "none"
    /\ selecting = FALSE
    /\ loggedInUser = Undefined
    /\ loginPending = TRUE
    /\ settings \in SettingsChoices
    /\ includeBlocked = FALSE
    /\ pending = {}
    /\ clock = 0
    /\ longPressId = NoId
    /\ tooltipVisible = FALSE
    /\ confirmDelete = NoId
    /\ notified = {}
    /\ mounted = {"A"}
    /\ listeners = {Registration("A", ch) : ch \in Channels}
    /\ timer = NoTimer
    /\ inPlace = FALSE
    /\ disableSoundForMessages = FALSE
    /\ effects = {}
    /\ groupTypeVisibility = TRUE
    /\ usersStatusVisibility = TRUE
    /\ textFormatters = <<>>
    /\ rendered = NoView
    /\ step = "mount"

NextGroups ==
    \/ getLoggedinUserResolved
    \/ getLoggedinUserRejected
    \/ \E g \in Groups, a \in {"scopeChange", "kicked", "banned", "left", "none"},
          on \in {Me, "u1"} : GroupListener(g, a, on)
    \/ \E op \in pending : groupHandlerThen(op)
    \/ \E op \in pending : groupHandlerRejected(op)
    \/ \E g \in Groups : ccGroupMemberKickedOrAdded(g)
    \/ \E op \in pending : updateConversationLastMessageThen(op)
    \/ \E op \in pending : updateConversationLastMessageCatch(op)
    \/ \E g \in Groups : ccGroupMemberBannedOrUnBanned(g)
    \/ \E g \in Groups : ccGroupLeft(g)

SpecGroups == InitGroups /\ [][NextGroups]_vars

(***************************************************************************)
(* Member-added events of several groups.                                  *)
(***************************************************************************)
\* The groups members are added to: g1, whose conversation is on the page,
\* and g2, whose conversation is not.
AddedGroups == {"g1", "g2"}

NextDebounce ==
    \/ getLoggedinUserResolved
    \/ \E g \in AddedGroups : onMemberAddedToGroup(g)
    \/ onMemberAddedToGroupTimeout
    \/ \E op \in pending : groupHandlerThen(op)
    \/ \E op \in pending : groupHandlerRejected(op)

SpecDebounce == Init /\ [][NextDebounce]_vars

(***************************************************************************)
(* Received messages with and without delivered and deleted markers.       *)
(***************************************************************************)
\* A received message: a text or a custom message from the other party,
\* fresh, already marked delivered, or soft-deleted.
MarkedShapes ==
    {[Message(NextMid, cat, "u1", ConversationIdOfUser("u1"), FALSE, FALSE, FALSE)
        EXCEPT !.deliveredAt = d, !.deletedAt = x] :
        cat \in {"message", "custom"}, d \in 0..1, x \in 0..1}

\* A mounted instance with the sound prop either way.
InitSound ==
    /\ store = FetchedPage
    /\ selectedConversation = <<>>
    /\ selectionMode = "none"
    /\ selecting = FALSE
    /\ loggedInUser = Me
    /\ loginPending = FALSE
    /\ settings \in SettingsChoices
    /\ includeBlocked = FALSE
    /\ pending = {}
    /\ clock = 0
    /\ longPressId = NoId
    /\ tooltipVisible = FALSE
    /\ confirmDelete = NoId
    /\ notified = {}
    /\ mounted = {"A"}
    /\ listeners = {Registration("A", ch) : ch \in Channels}
    /\ timer = NoTimer
    /\ inPlace = FALSE
    /\ disableSoundForMessages \in BOOLEAN
    /\ effects = {}
    /\ groupTypeVisibility = TRUE
    /\ usersStatusVisibility = TRUE
    /\ textFormatters = <<>>
    /\ rendered = NoView
    /\ step = "mount"

NextSound ==
    \/ \E m \in MarkedShapes : onMessageReceivedOf(m)
    \/ \E op \in pending : updateLastMessageThen(op)
    \/ \E op \in pending : updateLastMessageCatch(op)

SpecSound == InitSound /\ [][NextSound]_vars

(***************************************************************************)
(* Rendering of one list item: the status indicator of the leading view    *)
(* and the formatted text of the subtitle.                                 *)
(***************************************************************************)
\* conv.getConversationWith() as the leading view reads it: a group with its
\* type, or a user with the presence status and the two block flags.
GroupTypes == {"public", "private", "password"}

RenderedParties ==
    {[kind |-> "group", type |-> t, status |-> "offline",
      hasBlockedMe |-> FALSE, blockedByMe |-> FALSE] : t \in GroupTypes}
    \cup
    {[kind |-> "user", type |-> "", status |-> s,
      hasBlockedMe |-> h, blockedByMe |-> b] :
        s \in {"online", "offline"}, h \in BOOLEAN, b \in BOOLEAN}

\* getStatusIndicator(conv), withObj = conv.getConversationWith().
getStatusIndicator(withObj) ==
    IF ~groupTypeVisibility THEN "undefined"
    ELSE IF withObj.kind = "group" /\ withObj.type = "password" THEN "password"
    ELSE IF withObj.kind = "group" /\ withObj.type = "private" THEN "private"
    ELSE IF ~usersStatusVisibility THEN "undefined"
    ELSE IF /\ withObj.kind = "user"
            /\ withObj.status = "online"
            /\ ~withObj.hasBlockedMe
            /\ ~withObj.blockedByMe
    THEN "online"
    ELSE "offline"

\* LeadingViewRaw(conv): the indicator handed to CometChatStatusIndicator.
LeadingViewRaw(withObj) ==
    /\ rendered' = [view |-> "leading", of |-> withObj,
                    indicator |-> getStatusIndicator(withObj), text |-> <<>>]
    /\ step' = "LeadingViewRaw"
    /\ UNCHANGED <<store, sel, props, effects, life, inPlace, login, pending,
                   clock, ui, notified, groupTypeVisibility,
                   usersStatusVisibility, textFormatters>>

\* The formatters a caller can supply, and the mentions formatter of the
\* data source.  A formatter's getFormattedText wraps the text it is given:
\* a formatted text is the sequence of the formatters applied to the raw
\* subtitle, innermost first.
Formatters == {"f1", "f2"}
MentionsFormatter == "mentions"

FormatterLists ==
    {<<>>} \cup {<<f>> : f \in Formatters}
           \cup {<<p[1], p[2]>> : p \in {q \in Formatters \X Formatters : q[1] # q[2]}}

\* The length of the prefix the link test looks at, and of the two schemes
\* with their "://".
LinkPrefix == 50
SchemeLen(scheme) == IF scheme = "https" THEN 8 ELSE 7

\* A last message as the subtitle reads it: isText is `instanceof
\* TextMessage with category "message"`, mentions is
\* getMentionedUsers().length > 0, and scheme/at say where the text has its
\* first "http://" or "https://" (0-based offset; scheme "none": nowhere).
RenderedMessages ==
    {[isText |-> t, mentions |-> mn, scheme |-> s, at |-> a] :
        t \in BOOLEAN, mn \in BOOLEAN, s \in {"none", "http", "https"},
        a \in {0, 42, 43, 60}}

\* getText().substr(0, 50).match(/http[s]{0,1}:\/\//): the whole scheme
\* with its "://" lies in the first 50 characters.
MatchesUrl(message) ==
    /\ message.scheme # "none"
    /\ message.at + SchemeLen(message.scheme) <= LinkPrefix

IsLinkMessage(message) == message.isText /\ MatchesUrl(message)

\* The loop of getFormattedText: each formatter gets the text the one
\* before it produced.
RECURSIVE ApplyFormatters(_, _)
ApplyFormatters(text, formatters) ==
    IF formatters = <<>> THEN text
    ELSE ApplyFormatters(Append(text, Head(formatters)), Tail(formatters))

\* allFormatters: a copy of the supplied formatters, with the mentions
\* formatter pushed onto it when the message has mentioned users.
allFormatters(message) ==
    IF message.mentions THEN Append(textFormatters, MentionsFormatter)
    ELSE textFormatters

\* getFormattedText(message, subtitle) for the raw subtitle <<>>.
getFormattedText(message) ==
    IF IsLinkMessage(message) THEN <<>>
    ELSE ApplyFormatters(<<>>, allFormatters(message))

\* getMessagePreview up to the formatted text (lines 756-757).
getMessagePreview(message) ==
    /\ rendered' = [view |-> "subtitle", of |-> message,
                    indicator |-> "undefined", text |-> getFormattedText(message)]
    /\ step' = "getMessagePreview"
    /\ UNCHANGED <<store, sel, props, effects, life, inPlace, login, pending,
                   clock, ui, notified, groupTypeVisibility,
                   usersStatusVisibility, textFormatters>>

\* A mounted instance with the two visibility props either way and any of
\* the formatter lists.
InitRender ==
    /\ store = FetchedPage
    /\ selectedConversation = <<>>
    /\ selectionMode = "none"
    /\ selecting = FALSE
    /\ loggedInUser = Me
    /\ loginPending = FALSE
    /\ settings \in {s \in SettingsChoices : s.groupActions /\ s.calls}
    /\ includeBlocked = FALSE
    /\ pending = {}
    /\ clock = 0
    /\ longPressId = NoId
    /\ tooltipVisible = FALSE
    /\ confirmDelete = NoId
    /\ notified = {}
    /\ mounted = {"A"}
    /\ listeners = {Registration("A", ch) : ch \in Channels}
    /\ timer = NoTimer
    /\ inPlace = FALSE
    /\ disableSoundForMessages = FALSE
    /\ effects = {}
    /\ groupTypeVisibility \in BOOLEAN
    /\ usersStatusVisibility \in BOOLEAN
    /\ textFormatters \in FormatterLists
    /\ rendered = NoView
    /\ step = "mount"

NextRender ==
    \/ \E withObj \in RenderedParties : LeadingViewRaw(withObj)
    \/ \E message \in RenderedMessages : getMessagePreview(message)

SpecRender == InitRender /\ [][NextRender]_vars

(***************************************************************************)
(* The next-state relation.                                                *)
(***************************************************************************)
Next ==
    \/ getLoggedinUserResolved
    \/ getLoggedinUserRejected
    \/ \E id \in ConvIds, s \in {Me} \cup Users :
          s \in Senders(id) /\ onMessageReceived(id, s, FALSE)
    \/ \E id \in ConvIds : ccMessageSent(id, "success", FALSE)
    \/ \E op \in pending : updateLastMessageThen(op)
    \/ \E op \in pending : updateLastMessageCatch(op)
    \/ \E op \in pending : updateLastMessageAdd(op)
    \/ \E op \in pending : updateLastMessageAddCatch(op)
    \/ \E g \in Groups, a \in {"scopeChange", "kicked", "banned", "left", "none"},
          on \in {Me, "u1"} : GroupListener(g, a, on)
    \/ \E op \in pending : groupHandlerThen(op)
    \/ \E op \in pending : groupHandlerRejected(op)
    \/ \E g \in Groups : ccGroupMemberKickedOrAdded(g)
    \/ \E op \in pending : updateConversationLastMessageThen(op)
    \/ \E op \in pending : updateConversationLastMessageCatch(op)
    \/ \E g \in Groups : ccGroupMemberBannedOrUnBanned(g)
    \/ \E g \in Groups : ccOwnershipChanged(g)
    \/ \E op \in pending : ccOwnershipChangedThen(op)
    \/ \E op \in pending : ccOwnershipChangedCatch(op)
    \/ \E g \in Groups : ccGroupCreated(g)
    \/ \E op \in pending : ccGroupCreatedThen(op)
    \/ \E op \in pending : ccGroupCreatedRejected(op)
    \/ \E g \in Groups : ccGroupDeleted(g)
    \/ \E op \in pending : ccGroupDeletedThen(op)
    \/ \E op \in pending : ccGroupDeletedRejected(op)
    \/ \E g \in Groups : ccGroupLeft(g)
    \/ \E ch \in {"CallListener", "ccCall"}, id \in ConvIds : callEvent(ch, id)
    \/ \E op \in pending : callEventThen(op)
    \/ \E op \in pending : callEventCatch(op)
    \/ \E ind \in TypingIndicators, isTyping \in BOOLEAN : typingEventHandler(ind, isTyping)
    \/ \E u \in Users : ccUserBlocked(u)
    \/ \E u \in Users : ccUserUnBlocked(u)
    \/ \E id \in ConvIds, has \in BOOLEAN : onItemPress(id, has)
    \/ \E id \in ConvIds : onItemLongPress(id)
    \/ onPressDelete
    \/ onClose
    \/ onCancel
    \/ onConfirm
    \/ \E op \in pending : deleteConversationThen(op)
    \/ \E op \in pending : deleteConversationCatch(op)

Spec == Init /\ [][Next]_vars

(***************************************************************************)
(* Properties of the store.                                                *)
(***************************************************************************)
\* C1: after any interleaving of reconciler events (message received or
\* sent, group action, group created, call, block, delete) the store holds
\* at most one record per conversation id.
C1_OneRecordPerConversationId ==
    \A i, j \in 1..Len(store) : store[i].id = store[j].id => i = j

\* The step that took operation op out of flight and left the label l.
Settled(op, l) == op \in pending /\ op \notin pending' /\ step' = l

\* C3: an accepted message-received event for a conversation that is in the
\* store adds one to the unread count when the sender is not the logged-in
\* user and leaves it alone when it is; the record ends at index 0 and the
\* other records keep their relative order.
C3_MessageReceivedForExisting ==
    [][\A op \in pending :
          (/\ op.k = "updateLastMessage" /\ op.via = "received"
           /\ Has(store, op.m.conv)
           /\ Settled(op, "updateLastMessage:updated"))
          => LET old == getListItem(store, op.m.conv)
             IN  /\ Len(store') = Len(store)
                 /\ store'[1].id = op.m.conv
                 /\ store'[1].unread =
                       old.unread + (IF op.m.sender = Me THEN 0 ELSE 1)
                 /\ RemoveAt(store', 1) = RemoveAt(store, IndexOf(store, op.m.conv))
      ]_vars

\* The step gave the record of conversation id another last message.
LastMessageChanged(id) ==
    /\ Has(store, id) /\ Has(store', id)
    /\ getListItem(store', id).last.mid # getListItem(store, id).last.mid

\* C4 as stated: every store mutation that changes a record's last message
\* (message, group action, call) relocates that record to index 0.
C4_EveryLastMessageChangeMovesToFront ==
    [][\A id \in ConvIds : LastMessageChanged(id) => IndexOf(store', id) = 1]_vars

\* C4 amended: a received or sent message written to an existing record
\* relocates that record to index 0 and becomes its last message; the
\* mutations of groupHandler and of the call handlers change the last message
\* and leave every record at the index it had.
C4_MessagesMoveToFrontGroupAndCallInPlace ==
    [][/\ \A op \in pending :
             (/\ op.k = "updateLastMessage" /\ Has(store, op.m.conv)
              /\ Settled(op, "updateLastMessage:updated"))
             => /\ store'[1].id = op.m.conv
                /\ store'[1].last = op.m
       /\ step' \in {"groupHandler:updated", "call:updated"}
             => /\ Len(store') = Len(store)
                /\ \A i \in 1..Len(store) : store'[i].id = store[i].id
      ]_vars

\* C4's case: a message moved the group's record in front of the direct
\* conversation, whose last message a call then replaced at index 1.
C4_MovedAndInPlace ==
    /\ Len(store) = 2
    /\ store[1].id = GroupKey("g1") /\ store[1].last.cat = "message"
    /\ store[1].last.mid > 2
    /\ store[2].id = ConversationIdOfUser("u1") /\ store[2].last.cat = "call"
    /\ step = "call:updated"

\* C5: with updates on group actions off, a member kicked, banned or left
\* event about someone else leaves an existing record's last message
\* unchanged; about the logged-in user it removes the conversation from the
\* store whatever the setting.
C5_GroupActionsOffAndSelfRemoval ==
    [][\A g \in Groups, a \in {"kicked", "banned", "left"}, on \in {Me, "u1"} :
          (GroupListener(g, a, on) /\ Has(store, GroupKey(g)))
          => IF on = Me
             THEN ~Has(store', GroupKey(g))
             ELSE ~settings.groupActions
                     => /\ Has(store', GroupKey(g))
                        /\ getListItem(store', GroupKey(g)).last =
                              getListItem(store, GroupKey(g)).last
      ]_vars

\* C6: a typing-started event that resolves to a conversation leaves the
\* record carrying the typing annotation, whatever state the record was in;
\* a typing-ended event leaves it without the annotation.
C6_TypingAnnotationFollowsTheEvent ==
    [][\A ind \in TypingIndicators, isTyping \in BOOLEAN :
          LET i == getConversationRefFromTypingIndicator(store, ind)
          IN  (typingEventHandler(ind, isTyping) /\ i # 0)
              => IF isTyping
                 THEN store'[i].last.typing # "none"
                 ELSE store'[i].last.typing = "none"
      ]_vars

\* C7: a typing started or ended event leaves the unread counts, the set of
\* records and their order unchanged.
C7_TypingLeavesCountsAndOrder ==
    [][step' \in {"typing:started", "typing:ended", "typing:absent", "typing:TypeError"}
          => /\ Len(store') = Len(store)
             /\ \A i \in 1..Len(store) :
                   /\ store'[i].id = store[i].id
                   /\ store'[i].unread = store[i].unread
      ]_vars

\* C7's case: a typing-started event has annotated the group's record, which
\* has unread messages and is not at the front.
C7_TypingOnUnreadRecord ==
    /\ step = "typing:started"
    /\ \E i \in 2..Len(store) : store[i].last.typing # "none" /\ store[i].unread > 0

\* C9: when the delete command fails, the confirmation and the failure leave
\* the store and the selection as they were and emit no notification; the
\* confirmation has closed the dialog (pending-delete cleared) and the
\* failure does not reopen it.
C9_FailedDeleteChangesNothing ==
    [][/\ step' \in {"onConfirm", "removeConversation:catch"}
             => /\ store' = store
                /\ selectedConversation' = selectedConversation
                /\ notified' = notified
       /\ step' = "onConfirm" => confirmDelete' = NoId
       /\ step' = "removeConversation:catch" => confirmDelete' = confirmDelete
      ]_vars

\* C9's case: the delete command of a confirmed delete has failed; the
\* conversation is still in the store, nothing was notified and the dialog
\* is closed.
C9_DeleteFailed ==
    /\ step = "removeConversation:catch"
    /\ Has(store, longPressId)
    /\ notified = {}
    /\ confirmDelete = NoId

\* C10: a block event for a user whose conversation is in the store removes
\* the conversation from the store and the selection when the query does not
\* include blocked users (or there is no query); when it does, the record
\* stays where it is with only its opposing-user snapshot replaced.
C10_BlockRemovesOrUpdatesInPlace ==
    [][\A u \in Users :
          LET id == ConversationIdOfUser(u)
          IN  (ccUserBlocked(u) /\ Has(store, id))
              => IF includeBlocked
                 THEN store' = [store EXCEPT ![IndexOf(store, id)].with = EventParty(TRUE)]
                 ELSE /\ ~Has(store', id)
                      /\ findIndex(selectedConversation', id) = 0
      ]_vars

\* C11: for every combination of the four settings and every event shape
\* the policy returns the value of the spec's rules, taken in the order they
\* are given: a thread reply is rejected when update on replies is off; a
\* custom message that neither opts in nor carries the increment-unread flag
\* is rejected when update on custom messages is off; for an action sent to
\* a group the result is the update on group actions setting; a call is
\* rejected when update on call activities is off; everything else is
\* accepted.
C11_PolicyFollowsTheRules ==
    \A m \in MessageShapes :
        LET reply       == m.parent
            nonOpting   == m.cat = "custom" /\ ~m.willUpdate /\ ~m.incFlag
            groupAction == m.cat = "action" /\ m.conv.t = "group"
            rejected    == \/ reply /\ ~settings.replies
                           \/ nonOpting /\ ~settings.custom
                           \/ groupAction /\ ~settings.groupActions
                           \/ m.cat = "call" /\ ~settings.calls
        IN  shouldUpdateLastMessageAndUnreadCount(m) = ~rejected

\* C11's case: with update on replies on and update on custom messages off,
\* the policy let a custom thread reply through that carries the
\* increment-unread flag, and it became the last message.
C11_FlaggedCustomReplyAccepted ==
    /\ settings.replies /\ ~settings.custom
    /\ step = "updateLastMessage:updated"
    /\ store[1].last.cat = "custom" /\ store[1].last.parent
    /\ store[1].last.incFlag /\ ~store[1].last.willUpdate

\* C12: the policy is evaluated for every incoming message event (received,
\* sent, edited, deleted) before any store mutation, so the handling of a
\* message the policy rejects never changes the store.
C12_RejectedMessageLeavesStore ==
    [][\A op \in pending :
          (/\ op.k \in {"updateLastMessage", "updateLastMessage:add",
                        "checkAndUpdateLastMessage"}
           /\ op \notin pending'
           /\ ~shouldUpdateLastMessageAndUnreadCount(op.m))
          => store' = store
      ]_vars

\* C13: when a handler that had to derive the conversation inserts it, the
\* store holds exactly one record of that conversation afterwards, whatever
\* another event did to the store while the derivation was in flight.
C13_InsertAfterDerivationLeavesOneRecord ==
    [][\A op \in pending :
          (\/ Settled(op, "updateLastMessage:added")
           \/ Settled(op, "updateConversationLastMessage:added")
           \/ Settled(op, "groupHandler:added"))
          => Cardinality({i \in 1..Len(store') : store'[i].id = op.m.conv}) = 1
      ]_vars

\* C19: no handler has changed a field of a record object that the store
\* holds before handing the store a record value.
C19_NoHeldRecordMutatedInPlace == ~inPlace

\* The steps in which the external error callback onError is invoked.
onErrorInvoked ==
    {"updateLastMessage:onError", "updateConversationLastMessage:onError",
     "ccOwnershipChanged:onError", "call:onError"}

\* The derivation of a conversation from a message fails in some handler.
DerivationFails ==
    \E op \in pending :
        \/ updateLastMessageCatch(op)
        \/ updateLastMessageAddCatch(op)
        \/ checkAndUpdateLastMessageRejected(op)
        \/ groupHandlerRejected(op)
        \/ updateConversationLastMessageCatch(op)
        \/ callEventCatch(op)

\* C16: whenever the derivation of a conversation from a message fails, in
\* the message, group-action, call or edited/deleted/read handler, the
\* failure is passed to onError and the store is left unchanged.
C16_DerivationFailureReachesOnError ==
    [][DerivationFails => (step' \in onErrorInvoked /\ store' = store)]_vars

\* C14: a store write made when a derivation completes starts from the
\* record as the store holds it at that moment and sets only the fields
\* the event is authoritative for: the unread count is never lowered and
\* the opposing-party snapshot is kept.
C14_WriteAfterGapKeepsOtherFields ==
    [][\A op \in pending :
          (/\ op \notin pending'
           /\ op.k \in {"updateLastMessage", "checkAndUpdateLastMessage",
                        "ccOwnershipChanged"}
           /\ Has(store, op.m.conv)
           /\ store' # store)
          => /\ getListItem(store', op.m.conv).unread >=
                    getListItem(store, op.m.conv).unread
             /\ getListItem(store', op.m.conv).with =
                    getListItem(store, op.m.conv).with
      ]_vars

\* An event that resolves to no record of the store is handled.
EventResolvesToNoRecord ==
    \/ \E u \in Users :
          /\ ResolveUser(store, u) = NoId
          /\ (userEventHandler(u) \/ ccUserBlocked(u) \/ ccUserUnBlocked(u))
    \/ \E ind \in TypingIndicators, isTyping \in BOOLEAN :
          /\ getConversationRefFromTypingIndicator(store, ind) = 0
          /\ typingEventHandler(ind, isTyping)
    \/ \E r \in Receipts :
          /\ ReceiptConversation(store, r) = NoId
          /\ updateMessageReceipt(r)
    \/ (confirmDelete # NoId /\ ~Has(store, confirmDelete) /\ onConfirm)

\* The steps that end in a thrown error.
Thrown ==
    {"userEventHandler:TypeError", "ccUserBlocked:TypeError", "onConfirm:TypeError",
     "typing:TypeError", "updateMessageReceipt:TypeError"}

\* C17: an event that resolves to no record (presence, typing, block or
\* unblock for a user without a conversation, a receipt for an unknown
\* conversation, a delete confirmation for a record that is gone) raises no
\* error, invokes no callback and leaves the store unchanged.
C17_UnresolvedEventIsIgnored ==
    [][EventResolvesToNoRecord
          => (step' \notin Thrown /\ store' = store /\ notified' = notified)]_vars

C15_TeardownRevokesEverything ==
    "A" \notin mounted =>
        /\ \A ch \in Channels : ~Hears(ch)
        /\ timer.t # "pending"

\* C20: every mounted instance is reached by the events of every channel:
\* mounting or tearing down another instance takes none of its
\* subscriptions away.
C20_EveryMountedInstanceHearsEveryEvent ==
    \A inst \in mounted, ch \in Channels : inst \in Receivers(ch)

\* C21: an accepted message whose conversation has no record gets a record
\* synthesized and inserted at index 0, with unread count 1 when the sender
\* is not the logged-in user and the derived count when it is; the records
\* that were there follow in their order.
C21_NewRecordAtFrontWithUnread ==
    [][\A op \in pending :
          (/\ Settled(op, "updateLastMessage:added")
           /\ ~Has(store, op.m.conv))
          => /\ store'[1].id = op.m.conv
             /\ store'[1].last = op.m
             /\ store'[1].unread =
                   IF op.m.sender = Me THEN getConversationFromMessage(op.m).unread
                   ELSE 1
             /\ RemoveAt(store', 1) = store
      ]_vars

C23_BlockedUserEventsChangeNothing ==
    [][\A u \in Users :
          (/\ \E i \in 1..Len(store) :
                 /\ store[i].id.t = "user"
                 /\ Party(store[i].id) = u
                 /\ store[i].with.blocked
           /\ \/ userEventHandler(u)
              \/ \E isTyping \in BOOLEAN :
                    typingEventHandler([rtype |-> "user", sender |-> u, receiver |-> Me],
                                       isTyping))
          => store' = store
      ]_vars

\* A presence event has arrived for u1, whose record carries the blocked
\* snapshot, with the logged-in user known.
C23_PresenceForBlockedUser ==
    /\ step = "userEventHandler:blocked"
    /\ loggedInUser = Me
    /\ store[1].with.blocked

\* C24: once a kicked, banned or left event whose subject is the logged-in
\* user has been processed, its derivation included, the store holds no
\* record of the group's conversation (stated for the logged-in user known
\* to the handler).
C24_SelfRemovalLeavesNoRecord ==
    [][loggedInUser = Me =>
          /\ \A g \in Groups, a \in {"kicked", "banned", "left"} :
                (GroupListener(g, a, Me) /\ pending' = pending)
                => ~Has(store', GroupKey(g))
          /\ \A op \in pending :
                (op.k = "groupHandler" /\ op.via = "selfRemoval" /\ op \notin pending')
                => ~Has(store', op.m.conv)
      ]_vars

\* C25: a group-action event about someone else whose record exists leaves
\* every record at the index it had, whether it arrives on the SDK group
\* listener or as a UI group event.
C25_GroupActionsKeepPositions ==
    [][step' \in {"groupHandler:updated", "updateConversationLastMessage:updated",
                  "ccOwnershipChanged:updated"}
          => /\ Len(store') = Len(store)
             /\ \A i \in 1..Len(store) : store'[i].id = store[i].id
      ]_vars

\* C26: handling one group-action event terminates: a derivation is started
\* only for an event that has none in flight, and when it completes nothing
\* of the event stays in flight, whether the record is added or the handler
\* is re-entered for the record that has appeared.
C26_OneDerivationPerGroupEvent ==
    [][/\ step' = "groupHandler:derive"
          => \E o \in pending' :
                /\ o.k = "groupHandler"
                /\ \A p \in pending : p.m # o.m
       /\ \A op \in pending :
             (op.k = "groupHandler" /\ op \notin pending')
             => \A o \in pending' : o.m # op.m
      ]_vars

\* Two group actions found the group's conversation absent: the derivation
\* of one has completed and added the record, the other's is in flight and
\* will find the record there.
C26_RecordAppearedDuringDerivation ==
    /\ step = "groupHandler:added"
    /\ \E op \in pending : op.k = "groupHandler" /\ Has(store, op.m.conv)

\* C27: a call event the policy accepts, on the SDK call listener or as a UI
\* call event, adds one to the unread count of the conversation's record,
\* makes the call its last message and leaves every record at its index.
C27_CallUpdatesUnreadAndLastInPlace ==
    [][\A op \in pending :
          (/\ op.k \in {"CallListener", "ccCall"}
           /\ Settled(op, "call:updated")
           /\ Has(store, op.m.conv))
          => /\ Len(store') = Len(store)
             /\ \A i \in 1..Len(store) : store'[i].id = store[i].id
             /\ getListItem(store', op.m.conv).unread =
                   getListItem(store, op.m.conv).unread + 1
             /\ getListItem(store', op.m.conv).last = op.m
      ]_vars

\* C28: with update on call activities off, no call event on either channel
\* changes the store, although its derivation is started and completes.
C28_CallsOffChangeNothing ==
    [][\A op \in pending :
          (/\ op.k \in {"CallListener", "ccCall"}
           /\ op \notin pending'
           /\ ~settings.calls)
          => store' = store
      ]_vars

\* With calls off, the derivation of a UI call event for the group's
\* conversation has completed.
C28_CallDerivationCompletedWithCallsOff ==
    /\ step = "call:off"
    /\ ~settings.calls
    /\ pending = {}
    /\ clock > 0

\* C29: a member-added event cancels only the pending task it coalesces
\* with, the one of its own group, so that every group's burst ends with
\* its task still due.
C29_RetriggerCancelsOwnGroupOnly ==
    [][\A g \in AddedGroups :
          (onMemberAddedToGroup(g) /\ timer.t = "pending")
          => timer.m.conv = GroupKey(g)
      ]_vars

\* C30: a message-received listener issues the mark-as-delivered command
\* and plays a sound only for a message that passed the policy, has no
\* delivered marker and is not soft-deleted; for any other received message
\* it issues no command and plays no sound.
C30_DeliveryAndSoundOnlyForFreshMessages ==
    [][\A m \in MarkedShapes :
          onMessageReceivedOf(m)
          => (effects' # {}
                => /\ shouldUpdateLastMessageAndUnreadCount(m)
                   /\ m.deliveredAt = 0
                   /\ m.deletedAt = 0)
      ]_vars

\* C31: a click on a conversation of the list changes the selection by the
\* mode: in 'single' an unselected conversation becomes the whole selection
\* and the selected one is removed; in 'multiple' the clicked conversation
\* is appended when absent and taken out when present, the others keeping
\* their order.
C31_ClickSelectsOrToggles ==
    [][\A id \in ConvIds, has \in BOOLEAN :
          (onItemPress(id, has) /\ selectionMode # "none")
          => selectedConversation' =
                IF findIndex(selectedConversation, id) > 0
                THEN RemoveAt(selectedConversation,
                              findIndex(selectedConversation, id))
                ELSE IF selectionMode = "single" THEN <<id>>
                ELSE Append(selectedConversation, id)
      ]_vars

C32_IndicatorByKindAndOwnToggle ==
    (rendered.view = "leading")
    => rendered.indicator =
          IF rendered.of.kind = "group"
          THEN IF groupTypeVisibility /\ rendered.of.type \in {"password", "private"}
               THEN rendered.of.type
               ELSE "undefined"
          ELSE IF ~usersStatusVisibility THEN "undefined"
          ELSE IF /\ rendered.of.status = "online"
                  /\ ~rendered.of.hasBlockedMe
                  /\ ~rendered.of.blockedByMe
          THEN "online"
          ELSE "offline"

\* C33: the subtitle text of a last message that is not a link is the raw
\* text passed through the mentions formatter first, when the message has
\* mentions, and then through the supplied formatters in their order; the
\* text of a link message has no formatter applied.
C33_MentionsFirstThenSupplied ==
    (rendered.view = "subtitle")
    => rendered.text =
          IF IsLinkMessage(rendered.of) THEN <<>>
          ELSE (IF rendered.of.mentions THEN <<MentionsFormatter>> ELSE <<>>)
               \o textFormatters

\* C34: only a typing event sets, clears or changes a record's typing
\* annotation: a record that carries the annotation keeps it through every
\* step of any other handler that leaves the record in the store.
C34_OnlyTypingEventsTouchTheAnnotation ==
    [][step' \notin {"typing:started", "typing:ended"}
          => \A i \in 1..Len(store) :
                store[i].last.typing # "none"
                => \A j \in 1..Len(store') :
                      store'[j].id = store[i].id
                      => store'[j].last.typing = store[i].last.typing
      ]_vars

\* C35: when the derivation of an accepted message completes and no other
\* derivation for its conversation is in flight, the record's last message
\* is the message of that conversation that arrived last: it is not older
\* than the message the record showed before the completion.
C35_LastMessageIsTheLastArrived ==
    [][\A op \in pending :
          (/\ updateLastMessageThen(op)
           /\ Has(store, op.m.conv)
           /\ getListItem(store, op.m.conv).last.cat = "message"
           /\ \A o \in pending' : o.m.conv # op.m.conv)
          => getListItem(store', op.m.conv).last.mid
                >= getListItem(store, op.m.conv).last.mid
      ]_vars

\* The unread count the store shows for a conversation; 0 when it has no
\* record.
UnreadOf(s, id) == IF Has(s, id) THEN getListItem(s, id).unread ELSE 0

\* C37: no unread increment is lost: the step that completes the processing
\* of an accepted message from another sender (the update of the existing
\* record, or the insertion of the new one) leaves the conversation's unread
\* count one above what it was, however the derivations interleave.
C37_EveryAcceptedMessageCountsOnce ==
    [][\A op \in pending :
          (/\ op.m.sender # Me
           /\ \/ updateLastMessageThen(op) /\ Has(store, op.m.conv)
              \/ updateLastMessageAdd(op))
          => UnreadOf(store', op.m.conv) = UnreadOf(store, op.m.conv) + 1
      ]_vars

\* C38: whether or not the lookup of the logged-in user has resolved, the
\* processing of a message the logged-in user sent never raises the unread
\* count of its conversation, and no group-action event ends in an error.
C38_SameBeforeAndAfterTheLoginLookup ==
    [][/\ step' # "groupHandler:TypeError"
       /\ \A op \in pending :
             (/\ op.m.sender = Me
              /\ \/ updateLastMessageThen(op) /\ Has(store, op.m.conv)
                 \/ updateLastMessageAdd(op))
             => UnreadOf(store', op.m.conv) <= UnreadOf(store, op.m.conv)
      ]_vars

C36_CompletionAfterTeardownIsANoOp ==
    [][\A op \in pending :
          (/\ "A" \notin mounted
           /\ \/ updateLastMessageThen(op)
              \/ updateLastMessageAdd(op)
              \/ groupHandlerThen(op)
              \/ callEventThen(op) /\ op.k = "CallListener")
          => /\ store' = store
             /\ step' \notin {"groupHandler:unhandledRejection",
                              "updateLastMessage:onError", "call:onError"}
      ]_vars

=============================================================================
